---- MODULE Spec2Model ----
(***************************************************************************)
(* umodbus/exceptions.py: the Modbus exception taxonomy.                   *)
(*                                                                         *)
(* The module holds two module-level dictionaries (MODBUS_OP_CODES and     *)
(* error_code_to_exception_map), the base class ModbusError with its       *)
(* modbus_op_code property, and nine subclasses with an error_code and a   *)
(* string conversion.  Python dictionaries are mutable objects, so both    *)
(* tables are state; an exception instance is a record of its class, its   *)
(* _payload field and the args tuple BaseException.__new__ stores.         *)
(*                                                                         *)
(* A Python str is a TLA+ string; a bytes object is a sequence of          *)
(* integers in 0..255, indexed from 0 in Python and from 1 here.           *)
(* Docstrings are the text between the triple quotes exactly as written in *)
(* the file (what cls.__doc__ holds before CPython 3.13, which strips the  *)
(* common indentation of the continuation lines).                          *)
(***************************************************************************)
EXTENDS Integers, Sequences, FiniteSets, TLC

VARIABLES
  MODBUS_OP_CODES,              \* the module-level dict of lines 3-19
  error_code_to_exception_map,  \* the module-level dict of lines 158-169
  local                         \* local[t]: the local variables of thread t

vars == <<MODBUS_OP_CODES, error_code_to_exception_map, local>>

\* ------------------------------------------------------------------ bounds
\* Number of threads decoding concurrently.
NumThreads == 2

Threads == 1..NumThreads

\* --------------------------------------------------------- Python values
\* The outcome of evaluating an expression: a value, or a raised exception.
Return(v) == [kind |-> "return", value |-> v]
Raise(exc, arg) == [kind |-> "raise", exc |-> exc, arg |-> arg]

Byte == 0..255

\* int(0x80), the error-response offset subtracted from the function code.
ERROR_OFFSET == 128

Digit == <<"0", "1", "2", "3", "4", "5", "6", "7", "8", "9">>

\* Decimal digits of a natural number, most significant first.
RECURSIVE format_nat(_)
format_nat(n) ==
  IF n < 10 THEN Digit[n + 1] ELSE format_nat(n \div 10) \o Digit[(n % 10) + 1]

\* f"{i}" of an int.
format_int(i) == IF i < 0 THEN "-" \o format_nat(0 - i) ELSE format_nat(i)

\* payload[i] of a bytes object, i counted from 0.
bytes_getitem(payload, i) ==
  IF i < Len(payload) THEN Return(payload[i + 1])
  ELSE Raise("IndexError", "index out of range")

\* d[k] of a dict.
dict_getitem(d, k) ==
  IF k \in DOMAIN d THEN Return(d[k]) ELSE Raise("KeyError", format_int(k))

\* A dict display {k1: v1, k2: v2, ...}: the items are stored left to right,
\* a later item replacing an earlier one with the same key.
RECURSIVE dict_display(_)
dict_display(items) ==
  IF items = <<>> THEN <<>>
  ELSE LET n == Len(items)
           rest == dict_display(SubSeq(items, 1, n - 1))
           k == items[n][1]
       IN [x \in DOMAIN rest \cup {k} |-> IF x = k THEN items[n][2] ELSE rest[x]]

HexDigit == <<"0", "1", "2", "3", "4", "5", "6", "7",
              "8", "9", "a", "b", "c", "d", "e", "f">>

\* chr(96), the grave accent.  The TLA+ lexer accepts no grave accent inside a
\* string literal, so the character is written as this token, which no other
\* byte's rendering produces (only bytes outside the printable range are
\* rendered as a backslash, x and two hex digits).
GRAVE == "\\x60"

\* chr(32) .. chr(126)
Printable ==
  <<" ", "!", "\"", "#", "$", "%", "&", "'", "(", ")", "*", "+", ",", "-",
    ".", "/", "0", "1", "2", "3", "4", "5", "6", "7", "8", "9", ":", ";",
    "<", "=", ">", "?", "@", "A", "B", "C", "D", "E", "F", "G", "H", "I",
    "J", "K", "L", "M", "N", "O", "P", "Q", "R", "S", "T", "U", "V", "W",
    "X", "Y", "Z", "[", "\\", "]", "^", "_", GRAVE, "a", "b", "c", "d", "e",
    "f", "g", "h", "i", "j", "k", "l", "m", "n", "o", "p", "q", "r", "s",
    "t", "u", "v", "w", "x", "y", "z", "{", "|", "}", "~">>

\* Code points of the single quote, the double quote, the backslash, tab,
\* line feed, carriage return and space, and 0x7f, the first byte after the
\* printable range.
ORD_SQUOTE == 39
ORD_DQUOTE == 34
ORD_BACKSLASH == 92
ORD_TAB == 9
ORD_LF == 10
ORD_CR == 13
ORD_SPACE == 32
ORD_DEL == 127

\* The quote repr(bytes) delimits with: a single quote, unless the bytes hold
\* a single quote and no double quote.
repr_quote(payload) ==
  IF /\ \E i \in DOMAIN payload : payload[i] = ORD_SQUOTE
     /\ \A i \in DOMAIN payload : payload[i] # ORD_DQUOTE
  THEN ORD_DQUOTE ELSE ORD_SQUOTE

\* One byte of repr(bytes).
repr_byte(c, quote) ==
  IF c = quote \/ c = ORD_BACKSLASH THEN "\\" \o Printable[c - ORD_SPACE + 1]
  ELSE IF c = ORD_TAB THEN "\\t"
  ELSE IF c = ORD_LF THEN "\\n"
  ELSE IF c = ORD_CR THEN "\\r"
  ELSE IF c < ORD_SPACE \/ c >= ORD_DEL
       THEN "\\x" \o HexDigit[(c \div 16) + 1] \o HexDigit[(c % 16) + 1]
  ELSE Printable[c - ORD_SPACE + 1]

RECURSIVE repr_body(_, _)
repr_body(payload, quote) ==
  IF payload = <<>> THEN ""
  ELSE repr_byte(Head(payload), quote) \o repr_body(Tail(payload), quote)

\* repr(payload) of a bytes object, which is also str(payload).
bytes_repr(payload) ==
  LET q == repr_quote(payload)
      qs == Printable[q - ORD_SPACE + 1]
  IN "b" \o qs \o repr_body(payload, q) \o qs

\* ----------------------------------------------------------- the classes
Variants ==
  {"IllegalFunctionError", "IllegalDataAddressError", "IllegalDataValueError",
   "ServerDeviceFailureError", "AcknowledgeError", "ServerDeviceBusyError",
   "MemoryParityError", "GatewayPathUnavailableError",
   "GatewayTargetDeviceFailedToRespondError"}

Classes == Variants \cup {"ModbusError"}

\* The items of the dict display bound to MODBUS_OP_CODES, in source order.
MODBUS_OP_CODES_items ==
  << <<1, "Read Coils (1)">>,
     <<2, "Read Discrete Inputs (2)">>,
     <<3, "Read Holding Registers (3)">>,
     <<4, "Read Input Registers (4)">>,
     <<5, "Write Single Coil (5)">>,
     <<6, "Write Single Register (6)">>,
     <<7, "Read Exception Status (7)">>,
     <<8, "Diagnostics (8)">>,
     <<15, "Write Multiple Coils (15)">>,
     <<16, "Write Multiple Registers (16)">>,
     <<20, "Read File Record (20)">>,
     <<21, "Write File Record (21)">>,
     <<22, "Mask Write Register (22)">>,
     <<23, "Read/Write Multiple Registers (23)">>,
     <<24, "Read FIFO (24)">> >>

\* Mutant: GatewayTargetDeviceFailedToRespondError repeats the code 10 of the
\* class before it.
error_code_repeated(cls) ==
  CASE cls = "IllegalFunctionError" -> 1
    [] cls = "IllegalDataAddressError" -> 2
    [] cls = "IllegalDataValueError" -> 3
    [] cls = "ServerDeviceFailureError" -> 4
    [] cls = "AcknowledgeError" -> 5
    [] cls = "ServerDeviceBusyError" -> 6
    [] cls = "MemoryParityError" -> 8
    [] cls = "GatewayPathUnavailableError" -> 10
    [] cls = "GatewayTargetDeviceFailedToRespondError" -> 10

\* The class attribute error_code of each subclass.
error_code(cls) ==
  CASE cls = "IllegalFunctionError" -> 1
    [] cls = "IllegalDataAddressError" -> 2
    [] cls = "IllegalDataValueError" -> 3
    [] cls = "ServerDeviceFailureError" -> 4
    [] cls = "AcknowledgeError" -> 5
    [] cls = "ServerDeviceBusyError" -> 6
    [] cls = "MemoryParityError" -> 8
    [] cls = "GatewayPathUnavailableError" -> 10
    [] cls = "GatewayTargetDeviceFailedToRespondError" -> 11

\* cls.__doc__: the class's docstring.
doc(cls) ==
  CASE cls = "ModbusError" -> " Base class for all Modbus related exception. "
    [] cls = "IllegalFunctionError" ->
         " The function code received in the request is not an allowable action for\n    the server.\n\n    "
    [] cls = "IllegalDataAddressError" ->
         " The data address received in the request is not an allowable address for\n    the server.\n    "
    [] cls = "IllegalDataValueError" ->
         " The value contained in the request data field is not an allowable value\n    for the server.\n\n    "
    [] cls = "ServerDeviceFailureError" -> " An unrecoverable error occurred. "
    [] cls = "AcknowledgeError" ->
         " The server has accepted the requests and it processing it, but a long\n    duration of time will be required to do so.\n    "
    [] cls = "ServerDeviceBusyError" ->
         " The server is engaged in a long-duration program command. "
    [] cls = "MemoryParityError" ->
         " The server attempted to read record file, but detected a parity error\n    in memory.\n\n    "
    [] cls = "GatewayPathUnavailableError" ->
         " The gateway is probably misconfigured or overloaded. "
    [] cls = "GatewayTargetDeviceFailedToRespondError" ->
         " Didn't get a response from target device. "

\* The classes that define __str__ , and those that define __repr__ .
defines_str ==
  {"IllegalFunctionError", "IllegalDataAddressError", "IllegalDataValueError",
   "ServerDeviceFailureError", "AcknowledgeError", "ServerDeviceBusyError"}

defines_repr ==
  {"MemoryParityError", "GatewayPathUnavailableError",
   "GatewayTargetDeviceFailedToRespondError"}

\* The items of the dict display bound to error_code_to_exception_map.
error_code_to_exception_map_items ==
  << <<error_code("IllegalFunctionError"), "IllegalFunctionError">>,
     <<error_code("IllegalDataAddressError"), "IllegalDataAddressError">>,
     <<error_code("IllegalDataValueError"), "IllegalDataValueError">>,
     <<error_code("ServerDeviceFailureError"), "ServerDeviceFailureError">>,
     <<error_code("AcknowledgeError"), "AcknowledgeError">>,
     <<error_code("ServerDeviceBusyError"), "ServerDeviceBusyError">>,
     <<error_code("MemoryParityError"), "MemoryParityError">>,
     <<error_code("GatewayPathUnavailableError"), "GatewayPathUnavailableError">>,
     <<error_code("GatewayTargetDeviceFailedToRespondError"),
       "GatewayTargetDeviceFailedToRespondError">> >>

\* ------------------------------------------------------------ ModbusError
\* cls(payload): BaseException.__new__ stores the constructor's arguments
\* in args, and ModbusError.__init__ stores the payload, unchecked.
ModbusError_init(cls, payload) ==
  [cls |-> cls, _payload |-> payload, args |-> <<payload>>]

\* Mutant: the exception bit is cleared by masking instead of subtracted.
opcode_of_masked(function_code) == function_code % ERROR_OFFSET

\* opcode = int(self._payload[0]) - int(0x80)
opcode_of(function_code) == function_code - ERROR_OFFSET

\* Mutant: the KeyError is not caught, as the docstring's Raises section says.
describe_raising(table, opcode) == dict_getitem(table, opcode)

\* try: return MODBUS_OP_CODES[opcode]
\* except KeyError: return f"Unknown Opcode: {opcode}"
describe(table, opcode) ==
  LET r == dict_getitem(table, opcode)
  IN IF r.kind = "raise" /\ r.exc = "KeyError"
     THEN Return("Unknown Opcode: " \o format_int(opcode))
     ELSE r

\* Mutant: the function code is read at index 1 instead of index 0.
modbus_op_code_index1(self, table) ==
  LET b == bytes_getitem(self._payload, 1)
  IN IF b.kind = "raise" THEN b ELSE describe(table, opcode_of(b.value))

\* The property modbus_op_code: its result.
modbus_op_code(self, table) ==
  LET b == bytes_getitem(self._payload, 0)
  IN IF b.kind = "raise" THEN b ELSE describe(table, opcode_of(b.value))

\* Mutant: the fallback of an absent op code is stored in the dict, as
\* MODBUS_OP_CODES.setdefault(opcode, ...) would.
modbus_op_code_table_setdefault(self, table) ==
  LET b == bytes_getitem(self._payload, 0)
  IN IF b.kind = "raise" \/ opcode_of(b.value) \in DOMAIN table THEN table
     ELSE [k \in DOMAIN table \cup {opcode_of(b.value)} |->
             IF k \in DOMAIN table THEN table[k]
             ELSE "Unknown Opcode: " \o format_int(k)]

\* Mutant: the entry is taken out of the dict, as MODBUS_OP_CODES.pop(opcode)
\* would.
modbus_op_code_table_pop(self, table) ==
  LET b == bytes_getitem(self._payload, 0)
  IN IF b.kind = "raise" THEN table
     ELSE [k \in DOMAIN table \ {opcode_of(b.value)} |-> table[k]]

\* The property modbus_op_code: MODBUS_OP_CODES after it has run.  The dict is
\* only subscripted, and a failed subscript stores nothing.
modbus_op_code_table(self, table) == table

\* BaseException.__str__: "" without args, str(args[0]) with one argument.
BaseException_str(self) ==
  IF self.args = <<>> THEN "" ELSE bytes_repr(self.args[1])

\* BaseException.__repr__: the class name and the arguments.
BaseException_repr(self) ==
  self.cls \o "(" \o
    (IF self.args = <<>> THEN "" ELSE bytes_repr(self.args[1])) \o ")"

\* str(self): the class's __str__ , else the inherited one.
exception_str(self) ==
  CASE self.cls = "IllegalFunctionError" ->
         "Function code is not an allowable action for the server."
    [] self.cls = "ServerDeviceFailureError" ->
         "An unrecoverable error occurred."
    [] self.cls \in defines_str
         \ {"IllegalFunctionError", "ServerDeviceFailureError"} -> doc(self.cls)
    [] OTHER -> BaseException_str(self)

\* repr(self): the class's __repr__ , else the inherited one.
exception_repr(self) ==
  IF self.cls \in defines_repr THEN doc(self.cls) ELSE BaseException_repr(self)

\* ------------------------------------------------------------ the caller
\* The error code of a response: payload[1].
payload_error_code(payload) == bytes_getitem(payload, 1)

\* error_code_to_exception_map[payload[1]](payload): the error for a response.
from_payload(map, payload) ==
  LET c == payload_error_code(payload)
  IN IF c.kind = "raise" THEN c
     ELSE LET k == dict_getitem(map, c.value)
          IN IF k.kind = "raise" THEN k
             ELSE Return(ModbusError_init(k.value, payload))

\* error_code_to_exception_map after the lookup: it is only subscripted.
from_payload_map(map, payload) == map

\* ------------------------------------------------------------- the state
\* A local variable not yet bound.
Unset == [kind |-> "unset"]

\* A thread's position and local variables: whether it is idle, has built
\* the error through the table ("decoded") or by calling a class
\* ("constructed"); the payload it received; the result of building the error
\* for it; and the results of exc.modbus_op_code, str(exc) and repr(exc).
Idle == [pc |-> "idle", payload |-> <<>>, exc |-> Unset, desc |-> Unset,
         msg |-> Unset, rep |-> Unset]

\* The payloads of the concurrent runs: empty, one byte, the scenario
\* [0x83, 0x02], an undefined error code with a trailing byte, and two
\* responses with error code 8, one without the exception bit and with a
\* trailing byte.
SamplePayloads ==
  {<<>>, <<131>>, <<131, 2>>, <<131, 7, 255>>, <<131, 8>>, <<0, 8, 255>>}

\* The error-code bytes of the sweep: around the defined codes, and the
\* bytes repr() escapes specially.
SweepCodes == 0..13 \cup {ORD_DQUOTE, ORD_SQUOTE, ORD_BACKSLASH, 96, ORD_DEL, 255}

\* The payloads of the sweep: every function code with each of those error
\* codes, every error code with function code 0x83, every one-byte payload,
\* the empty payload, and payloads with trailing bytes.
AllPayloads ==
  {<<b0, b1>> : b0 \in Byte, b1 \in SweepCodes}
    \cup {<<131, b1>> : b1 \in Byte}
    \cup {<<b0>> : b0 \in Byte}
    \cup {<<>>}
    \cup {<<143, b1, b2>> : b1 \in 1..11, b2 \in {0, ORD_SQUOTE, 255}}

Init ==
  /\ MODBUS_OP_CODES = dict_display(MODBUS_OP_CODES_items)
  /\ error_code_to_exception_map = dict_display(error_code_to_exception_map_items)
  /\ local = [t \in Threads |-> Idle]

\* A thread receives a payload of P and builds the error for it through the
\* table.
Decode(t, P) ==
  /\ local[t].pc = "idle"
  /\ \E p \in P :
       /\ local' = [local EXCEPT ![t] =
                      [Idle EXCEPT !.pc = "decoded", !.payload = p,
                                   !.exc = from_payload(error_code_to_exception_map, p)]]
       /\ error_code_to_exception_map' =
            from_payload_map(error_code_to_exception_map, p)
  /\ UNCHANGED MODBUS_OP_CODES

\* A thread receives a payload p of P and constructs cls(p) itself, for a
\* class of K.
New(t, P, K) ==
  /\ local[t].pc = "idle"
  /\ \E p \in P, cls \in K :
       local' = [local EXCEPT ![t] =
                   [Idle EXCEPT !.pc = "constructed", !.payload = p,
                                !.exc = Return(ModbusError_init(cls, p))]]
  /\ UNCHANGED <<MODBUS_OP_CODES, error_code_to_exception_map>>

\* A thread reads exc.modbus_op_code .
OpCode(t) ==
  /\ local[t].exc.kind = "return"
  /\ local[t].desc = Unset
  /\ local' = [local EXCEPT ![t].desc =
                 modbus_op_code(local[t].exc.value, MODBUS_OP_CODES)]
  /\ MODBUS_OP_CODES' = modbus_op_code_table(local[t].exc.value, MODBUS_OP_CODES)
  /\ UNCHANGED error_code_to_exception_map

\* A thread evaluates str(exc).
Str(t) ==
  /\ local[t].exc.kind = "return"
  /\ local[t].msg = Unset
  /\ local' = [local EXCEPT ![t].msg = Return(exception_str(local[t].exc.value))]
  /\ UNCHANGED <<MODBUS_OP_CODES, error_code_to_exception_map>>

\* A thread evaluates repr(exc).
Repr(t) ==
  /\ local[t].exc.kind = "return"
  /\ local[t].rep = Unset
  /\ local' = [local EXCEPT ![t].rep = Return(exception_repr(local[t].exc.value))]
  /\ UNCHANGED <<MODBUS_OP_CODES, error_code_to_exception_map>>

\* A thread is done with the response, handled or failed, and drops it.
Release(t) ==
  /\ local[t].pc # "idle"
  /\ local' = [local EXCEPT ![t] = Idle]
  /\ UNCHANGED <<MODBUS_OP_CODES, error_code_to_exception_map>>

\* The steps of the threads T on the payloads P, constructing through the
\* table or, for the classes K, directly.
NextOver(T, P, K) ==
  \E t \in T :
    \/ Decode(t, P)
    \/ New(t, P, K)
    \/ OpCode(t)
    \/ Str(t)
    \/ Repr(t)
    \/ Release(t)

\* Concurrent decoding of the sample payloads.
Next == NextOver(Threads, SamplePayloads, {"ModbusError"})

Spec == Init /\ [][Next]_vars

\* One thread, every payload of the sweep, every class.
NextSweep == NextOver({1}, AllPayloads, Classes)

SpecSweep == Init /\ [][NextSweep]_vars

\* One thread, the sample payloads, every class.
NextSingle == NextOver({1}, SamplePayloads, Classes)

SpecSingle == Init /\ [][NextSingle]_vars

\* ================================================================ claims
\* The error codes and op codes the specification calls defined.
DefinedErrorCodes == {1, 2, 3, 4, 5, 6, 8, 10, 11}

DefinedOpCodes == {1, 2, 3, 4, 5, 6, 7, 8, 15, 16, 20, 21, 22, 23, 24}

\* The fixed message of each error code in the specification's table of
\* variants.
TableMessage(c) ==
  CASE c = 1 -> "Function code is not an allowable action for the server."
    [] c = 2 -> "The data address received in the request is not an allowable address for the server."
    [] c = 3 -> "The value contained in the request data field is not an allowable value for the server."
    [] c = 4 -> "An unrecoverable error occurred."
    [] c = 5 -> "The server has accepted the request and is processing it, but a long duration of time will be required to do so."
    [] c = 6 -> "The server is engaged in a long-duration program command."
    [] c = 8 -> "The server attempted to read record file, but detected a parity error in memory."
    [] c = 10 -> "The gateway is probably misconfigured or overloaded."
    [] c = 11 -> "Did not get a response from the target device."

\* The canonical descriptions, as the documentation of modbus_op_code lists
\* them.
CanonicalDescription(c) ==
  CASE c = 1 -> "Read Coils (1)"
    [] c = 2 -> "Read Discrete Inputs (2)"
    [] c = 3 -> "Read Holding Registers (3)"
    [] c = 4 -> "Read Input Registers (4)"
    [] c = 5 -> "Write Single Coil (5)"
    [] c = 6 -> "Write Single Register (6)"
    [] c = 7 -> "Read Exception Status (7)"
    [] c = 8 -> "Diagnostics (8)"
    [] c = 15 -> "Write Multiple Coils (15)"
    [] c = 16 -> "Write Multiple Registers (16)"
    [] c = 20 -> "Read File Record (20)"
    [] c = 21 -> "Write File Record (21)"
    [] c = 22 -> "Mask Write Register (22)"
    [] c = 23 -> "Read/Write Multiple Registers (23)"
    [] c = 24 -> "Read FIFO (24)"

\* The description the specification gives an op code.
ExpectedDescription(c) ==
  IF c \in DefinedOpCodes THEN CanonicalDescription(c)
  ELSE "Unknown Opcode: " \o format_int(c)

\* Thread t holds an error value.
Holds(t) == local[t].exc.kind = "return"

\* C1: for every defined error code c and every op code, decoding the payload
\* [0x80 + op, c] through the table returns the variant whose error_code is c
\* and whose string conversion is exactly the fixed message of the
\* specification's table.
C1_DecodedMessageIsTableMessage ==
  \A t \in Threads :
    (/\ local[t].pc = "decoded"
     /\ Len(local[t].payload) = 2
     /\ local[t].payload[2] \in DefinedErrorCodes)
    => /\ Holds(t)
       /\ error_code(local[t].exc.value.cls) = local[t].payload[2]
       /\ local[t].msg # Unset
            => local[t].msg = Return(TableMessage(local[t].payload[2]))

\* C2: for every payload of length >= 2 whose byte 1 is not a defined error
\* code, resolving the error code fails with the named error
\* UnrecognizedErrorCode carrying that code, never with a raw key-lookup
\* failure of the table.
C2_UnknownCodeFailsWithNamedError ==
  \A t \in Threads :
    (/\ local[t].pc = "decoded"
     /\ Len(local[t].payload) >= 2
     /\ local[t].payload[2] \notin DefinedErrorCodes)
    => local[t].exc =
         Raise("UnrecognizedErrorCode", format_int(local[t].payload[2]))

\* C3: constructing an error value from a payload of length 0 or 1 fails at
\* construction with MalformedPayload: no error value wraps a payload shorter
\* than 2 bytes, and no op-code description lookup ends in an out-of-bounds
\* access.
C3_ShortPayloadRejectedAtConstruction ==
  \A t \in Threads :
    /\ Holds(t) => Len(local[t].exc.value._payload) >= 2
    /\ (local[t].pc = "constructed" /\ Len(local[t].payload) < 2)
         => local[t].exc.kind = "raise" /\ local[t].exc.exc = "MalformedPayload"
    /\ local[t].desc.kind = "raise" => local[t].desc.exc # "IndexError"

\* The integers the op-code lookup is tried on: -MaxOpCode .. MaxOpCode.
MaxOpCode == 300

C6_MessageIndependentOfPayload ==
  \A t, u \in Threads :
    (/\ Holds(t) /\ Holds(u)
     /\ local[t].exc.value.cls \in Variants
     /\ local[t].exc.value.cls = local[u].exc.value.cls
     /\ local[t].msg # Unset /\ local[u].msg # Unset)
    => local[t].msg = local[u].msg

\* Two threads are at the same point of handling the same payload.
SameDecode(t, u) ==
  /\ t # u
  /\ local[t].pc # "idle"
  /\ local[t].pc = local[u].pc
  /\ local[t].payload = local[u].payload
  /\ local[t].pc = "constructed"
       => local[t].exc.value.cls = local[u].exc.value.cls

\* C7: decoding is deterministic: two decodes of the same payload, in any
\* order relative to the other decode operations, give the same variant or
\* the same failure, the same error_code, the same message and the same
\* op-code description.
C7_DecodeDeterministic ==
  \A t, u \in Threads :
    SameDecode(t, u)
    => /\ local[t].exc = local[u].exc
       /\ (local[t].desc # Unset /\ local[u].desc # Unset)
            => local[t].desc = local[u].desc
       /\ (local[t].msg # Unset /\ local[u].msg # Unset)
            => local[t].msg = local[u].msg
       /\ (local[t].rep # Unset /\ local[u].rep # Unset)
            => local[t].rep = local[u].rep

\* C7 witness: two threads have decoded the same payload through the table
\* and both have its description and its message.
C7_Witness ==
  \E t, u \in Threads :
    /\ SameDecode(t, u)
    /\ local[t].pc = "decoded"
    /\ Holds(t)
    /\ local[t].desc # Unset /\ local[u].desc # Unset
    /\ local[t].msg # Unset /\ local[u].msg # Unset

\* The variant the specification's table gives each defined error code.
VariantOfCode(c) ==
  CASE c = 1 -> "IllegalFunctionError"
    [] c = 2 -> "IllegalDataAddressError"
    [] c = 3 -> "IllegalDataValueError"
    [] c = 4 -> "ServerDeviceFailureError"
    [] c = 5 -> "AcknowledgeError"
    [] c = 6 -> "ServerDeviceBusyError"
    [] c = 8 -> "MemoryParityError"
    [] c = 10 -> "GatewayPathUnavailableError"
    [] c = 11 -> "GatewayTargetDeviceFailedToRespondError"

\* The contents of the two tables once the module is imported.
InitialOpCodes == [c \in DefinedOpCodes |-> CanonicalDescription(c)]

InitialErrorMap == [c \in DefinedErrorCodes |-> VariantOfCode(c)]

\* C8: the op-code registry and the error-code table are never mutated: in
\* every reachable state both hold their initial contents, and each
\* concurrent lookup returns what it returns when run alone on them.
C8_TablesNeverMutated ==
  /\ MODBUS_OP_CODES = InitialOpCodes
  /\ error_code_to_exception_map = InitialErrorMap
  /\ \A t \in Threads :
       /\ local[t].pc = "decoded"
            => local[t].exc = from_payload(InitialErrorMap, local[t].payload)
       /\ local[t].desc # Unset
            => local[t].desc = modbus_op_code(local[t].exc.value, InitialOpCodes)

\* C8 witness: one thread's lookup of an absent error code has failed while
\* another thread's lookup of an absent op code has taken the fallback.
C8_Witness ==
  \E t, u \in Threads :
    /\ local[t].pc = "decoded" /\ local[t].payload = <<131, 7, 255>>
    /\ local[t].exc.kind = "raise"
    /\ local[u].pc = "decoded" /\ local[u].payload = <<0, 8, 255>>
    /\ local[u].desc = Return("Unknown Opcode: -128")

\* C9: the error-code table is one-to-one with key set {1,2,3,4,5,6,8,10,11}:
\* 7 and 9 are no keys, every key maps to a variant whose error_code is that
\* key, no two keys map to the same variant, and every variant is the image
\* of a key.
C9_TableIsBijection ==
  /\ DOMAIN error_code_to_exception_map = {1, 2, 3, 4, 5, 6, 8, 10, 11}
  /\ 7 \notin DOMAIN error_code_to_exception_map
  /\ 9 \notin DOMAIN error_code_to_exception_map
  /\ \A k \in DOMAIN error_code_to_exception_map :
       /\ error_code_to_exception_map[k] \in Variants
       /\ error_code(error_code_to_exception_map[k]) = k
  /\ \A j, k \in DOMAIN error_code_to_exception_map :
       error_code_to_exception_map[j] = error_code_to_exception_map[k] => j = k
  /\ \A v \in Variants :
       \E k \in DOMAIN error_code_to_exception_map :
         error_code_to_exception_map[k] = v

\* C9 witness: the table has been queried for the keys 8 and 7: one thread
\* got the variant of code 8, another the failure for code 7.
C9_Witness ==
  \E t, u \in Threads :
    /\ local[t].pc = "decoded" /\ Holds(t)
    /\ local[t].payload = <<131, 8>>
    /\ local[t].exc.value.cls = "MemoryParityError"
    /\ local[u].pc = "decoded" /\ local[u].payload = <<131, 7, 255>>
    /\ local[u].exc.kind = "raise"

\* C10: the two decoded facets are independent: payloads of length >= 2 that
\* agree on byte 0 have the same op-code description whatever byte 1, the
\* variant and the trailing bytes are; payloads that agree on byte 1 select
\* the same variant or the same lookup failure whatever byte 0 and the
\* trailing bytes are; and the description lookup succeeds on a payload whose
\* byte 1 is no defined error code.
C10_FacetsIndependent ==
  /\ \A t, u \in Threads :
       (/\ Holds(t) /\ Holds(u)
        /\ Len(local[t].payload) >= 2 /\ Len(local[u].payload) >= 2
        /\ local[t].payload[1] = local[u].payload[1]
        /\ local[t].desc # Unset /\ local[u].desc # Unset)
       => local[t].desc = local[u].desc
  /\ \A t, u \in Threads :
       (/\ local[t].pc = "decoded" /\ local[u].pc = "decoded"
        /\ Len(local[t].payload) >= 2 /\ Len(local[u].payload) >= 2
        /\ local[t].payload[2] = local[u].payload[2])
       => /\ local[t].exc.kind = local[u].exc.kind
          /\ Holds(t) => local[t].exc.value.cls = local[u].exc.value.cls
          /\ ~Holds(t) => local[t].exc = local[u].exc
  /\ \A t \in Threads :
       (/\ Holds(t) /\ Len(local[t].payload) >= 2
        /\ local[t].payload[2] \notin DefinedErrorCodes
        /\ local[t].desc # Unset)
       => local[t].desc.kind = "return"

\* C10 witness: two values that agree on byte 0 only, one of them built for
\* an undefined error code with a trailing byte, have the same description.
C10_Witness ==
  \E t, u \in Threads :
    /\ Holds(t) /\ local[t].payload = <<131, 8>>
    /\ Holds(u) /\ local[u].payload = <<131, 7, 255>>
    /\ local[t].desc = Return("Read Holding Registers (3)")
    /\ local[u].desc = local[t].desc

====
